---- MODULE Spec2Model ----
(***************************************************************************)
(* Model of calculater.py: the restricted arithmetic evaluator (_SafeEval, *)
(* safe_eval) and the handlers of CalculatorApp that feed it.              *)
(*                                                                         *)
(* A text is a sequence of one-character strings.  A number is a record    *)
(*   [t, n, d, z]: t is the Python type of the value; n/d is its value     *)
(* (d > 0, lowest terms); z marks the float negative zero.  A float whose  *)
(* value is n/d is tracked only when n/d is exactly representable (d a     *)
(* power of two, |n| and d below Limit); every other float is the value    *)
(* Untracked, of which the model knows the type but not the magnitude.     *)
(* A computation whose outcome depends on the magnitude of an untracked    *)
(* float, or that leaves the range of Limit, has the outcome OutOfModel;   *)
(* the specifications below start only from inputs that stay in the model. *)
(***************************************************************************)
EXTENDS Integers, Sequences, FiniteSets, TLC

\* ------------------------------------------------------------------------
\* Bounds of the model
\* ------------------------------------------------------------------------
\* largest numerator / denominator the model computes with
Limit == 30000

\* ------------------------------------------------------------------------
\* Integer helpers
\* ------------------------------------------------------------------------
Abs(x) == IF x < 0 THEN -x ELSE x

RECURSIVE Gcd(_, _)
Gcd(a, b) == IF b = 0 THEN a ELSE Gcd(b, a % b)

RECURSIVE IsPow2(_)
IsPow2(d) == IF d = 1 THEN TRUE ELSE IF d % 2 # 0 THEN FALSE ELSE IsPow2(d \div 2)

\* acc * b^e for b >= 2, saturating at Limit + 1
RECURSIVE PowFrom(_, _, _)
PowFrom(b, e, acc) ==
  IF acc > Limit THEN Limit + 1
  ELSE IF e = 0 THEN acc
  ELSE PowFrom(b, e - 1, acc * b)

\* b^e for b >= 0, e >= 0, saturating at Limit + 1
PowCap(b, e) ==
  IF e = 0 THEN 1
  ELSE IF b <= 1 THEN b
  ELSE IF b > Limit THEN Limit + 1
  ELSE PowFrom(b, e, 1)

\* ------------------------------------------------------------------------
\* Python values and outcomes
\* ------------------------------------------------------------------------
IntV(k) == [t |-> "int", n |-> k, d |-> 1, z |-> FALSE]
BoolV(b) == [t |-> "bool", n |-> IF b THEN 1 ELSE 0, d |-> 1, z |-> FALSE]
FloatV(num, den) == [t |-> "float", n |-> num, d |-> den, z |-> FALSE]
NegZero == [t |-> "float", n |-> 0, d |-> 1, z |-> TRUE]
Untracked == [t |-> "float", n |-> 0, d |-> 0, z |-> FALSE]
UntrackedInt == [t |-> "int", n |-> 0, d |-> 0, z |-> FALSE]
None == [t |-> "NoneType", n |-> 0, d |-> 1, z |-> FALSE]
Complex == [t |-> "complex", n |-> 0, d |-> 1, z |-> FALSE]
Ellipsis == [t |-> "ellipsis", n |-> 0, d |-> 1, z |-> FALSE]

IsTracked(v) == v.d # 0
IsIntLike(v) == v.t \in {"int", "bool"}
IsReal(v) == v.t \in {"int", "bool", "float"}

Ok(v) == [kind |-> "ok", val |-> v, err |-> "", what |-> ""]
Raise(e, w) == [kind |-> "err", val |-> None, err |-> e, what |-> w]
OutOfModel == Raise("OutOfModel", "")
IsOk(o) == o.kind = "ok"
IsErr(o) == o.kind = "err"

\* the float of value num/den (den # 0), or OutOfModel / Untracked
MkFloat(num, den) ==
  LET s == IF den < 0 THEN -1 ELSE 1
      g == Gcd(Abs(num), Abs(den))
      nn == (s * num) \div g
      dd == (s * den) \div g
  IN  IF Abs(nn) > Limit \/ dd > Limit THEN OutOfModel
      ELSE IF IsPow2(dd) THEN Ok(FloatV(nn, dd)) ELSE Ok(Untracked)

MkInt(k) == IF Abs(k) > Limit THEN OutOfModel ELSE Ok(IntV(k))

\* sign bit of a tracked real value
Negative(v) == v.n < 0 \/ v.z

\* the float num/den; negz is the sign of the result when it is zero
MkFloatZ(num, den, negz) ==
  IF num = 0 THEN Ok(IF negz THEN NegZero ELSE FloatV(0, 1)) ELSE MkFloat(num, den)

\* Python's a % b on integers (b # 0): the result has the sign of b
PyMod(a, b) == IF b > 0 THEN a % b ELSE -((-a) % (-b))

\* ------------------------------------------------------------------------
\* Host arithmetic used by visit_BinOp and visit_UnaryOp
\* ------------------------------------------------------------------------
\* left + right
PyAdd(l, r) ==
  IF IsIntLike(l) /\ IsIntLike(r) THEN MkInt(l.n + r.n)
  ELSE MkFloatZ(l.n * r.d + r.n * l.d, l.d * r.d, l.n = 0 /\ r.n = 0 /\ l.z /\ r.z)

\* left - right
PySub(l, r) ==
  IF IsIntLike(l) /\ IsIntLike(r) THEN MkInt(l.n - r.n)
  ELSE MkFloatZ(l.n * r.d - r.n * l.d, l.d * r.d, l.n = 0 /\ r.n = 0 /\ l.z /\ ~r.z)

\* left * right
PyMul(l, r) ==
  IF IsIntLike(l) /\ IsIntLike(r) THEN MkInt(l.n * r.n)
  ELSE MkFloatZ(l.n * r.n, l.d * r.d, Negative(l) # Negative(r))

\* left / right as IEEE 754 division: only an integer zero divisor raises, a
\* float zero divisor yields an infinity or a NaN
PyDivIeee(l, r) ==
  IF r.n = 0 /\ IsIntLike(r) THEN Raise("ZeroDivisionError", "division by zero")
  ELSE IF r.n = 0 THEN Ok(Untracked)
  ELSE IF ~IsTracked(l) THEN OutOfModel
  ELSE MkFloatZ(l.n * r.d, l.d * r.n, Negative(l) # Negative(r))

\* left / right: true division, always a float
PyDiv(l, r) ==
  IF r.n = 0 THEN Raise("ZeroDivisionError", "division by zero")
  ELSE IF ~IsTracked(l) THEN OutOfModel
  ELSE MkFloatZ(l.n * r.d, l.d * r.n, Negative(l) # Negative(r))

\* left % right: the remainder takes the sign of the divisor
PyModulo(l, r) ==
  IF r.n = 0 THEN Raise("ZeroDivisionError", "modulo by zero")
  ELSE IF ~IsTracked(l) THEN OutOfModel
  ELSE IF IsIntLike(l) /\ IsIntLike(r) THEN MkInt(PyMod(l.n, r.n))
  ELSE MkFloatZ(PyMod(l.n * r.d, r.n * l.d), l.d * r.d, r.n < 0)

\* (num/den) ** e for an integer e > 0, as a float or an int
PowPos(l, e, asInt) ==
  LET pn == PowCap(Abs(l.n), e)
      pd == PowCap(l.d, e)
      sg == IF l.n < 0 /\ e % 2 = 1 THEN -1 ELSE 1
  IN  IF pn > Limit \/ pd > Limit THEN OutOfModel
      ELSE IF asInt THEN MkInt(sg * pn)
      ELSE MkFloatZ(sg * pn, pd, l.z /\ e % 2 = 1)

\* (num/den) ** -e for an integer e > 0: a float
PowNeg(l, e) ==
  LET pn == PowCap(Abs(l.n), e)
      pd == PowCap(l.d, e)
      sg == IF l.n < 0 /\ e % 2 = 1 THEN -1 ELSE 1
  IN  IF l.n = 0 THEN Raise("ZeroDivisionError", "0.0 cannot be raised to a negative power")
      ELSE IF pn > Limit \/ pd > Limit THEN OutOfModel
      ELSE MkFloat(sg * pd, pn)

\* left ** right
PyPow(l, r) ==
  IF r.d = 1 THEN
    IF r.n = 0 THEN Ok(IF IsIntLike(l) /\ IsIntLike(r) THEN IntV(1) ELSE FloatV(1, 1))
    ELSE IF r.n > 0 THEN PowPos(l, r.n, IsIntLike(l) /\ IsIntLike(r))
    ELSE PowNeg(l, -r.n)
  ELSE \* a fractional exponent
    IF l.n = 0 THEN
      IF r.n > 0 THEN Ok(FloatV(0, 1))
      ELSE Raise("ZeroDivisionError", "0.0 cannot be raised to a negative power")
    ELSE IF l.n = l.d THEN Ok(FloatV(1, 1))
    ELSE IF l.n < 0 THEN Ok(Complex)
    ELSE Ok(Untracked)

\* the operators of visit_BinOp by the name of the ast operator class
Arith(op, l, r) ==
  CASE op = "Add" -> PyAdd(l, r)
    [] op = "Sub" -> PySub(l, r)
    [] op = "Mult" -> PyMul(l, r)
    [] op = "Div" -> PyDiv(l, r)
    [] op = "Mod" -> PyModulo(l, r)
    [] op = "Pow" -> PyPow(l, r)

\* the value of `left op right` for two operand values
BinValue(op, l, r) ==
  IF l.t = "NoneType" \/ r.t = "NoneType"
    THEN Raise("TypeError", "unsupported operand type(s)")
  ELSE IF ~(IsReal(l) /\ IsReal(r) /\ IsTracked(r)) THEN OutOfModel
  ELSE IF ~IsTracked(l) /\ op \notin {"Div", "Mod"} THEN OutOfModel
  ELSE Arith(op, l, r)

\* -operand
PyNeg(v) ==
  IF v.t = "NoneType" THEN Raise("TypeError", "bad operand type for unary -")
  ELSE IF IsIntLike(v) THEN Ok(IntV(-v.n))
  ELSE IF v.t = "float" /\ IsTracked(v) /\ v.n = 0 THEN Ok(IF v.z THEN FloatV(0, 1) ELSE NegZero)
  ELSE IF v.t = "float" /\ IsTracked(v) THEN Ok(FloatV(-v.n, v.d))
  ELSE Ok(v)

\* +operand
PyPos(v) ==
  IF v.t = "NoneType" THEN Raise("TypeError", "bad operand type for unary +")
  ELSE IF IsIntLike(v) THEN Ok(IntV(v.n))
  ELSE Ok(v)

\* ------------------------------------------------------------------------
\* Characters
\* ------------------------------------------------------------------------
Digits == {"0", "1", "2", "3", "4", "5", "6", "7", "8", "9"}
\* the letters of the model's inputs
Letters == {"f", "o", "T", "r", "u", "e", "N", "n"}
\* what str.strip() removes, among the model's characters
Whitespace == {" ", "\t", "\n"}
OpChars == {"+", "-", "*", "/", "%", "(", ")", ",", "."}

DigitVal(c) ==
  CASE c = "0" -> 0 [] c = "1" -> 1 [] c = "2" -> 2 [] c = "3" -> 3 [] c = "4" -> 4
    [] c = "5" -> 5 [] c = "6" -> 6 [] c = "7" -> 7 [] c = "8" -> 8 [] c = "9" -> 9

DigitChar(k) ==
  CASE k = 0 -> "0" [] k = 1 -> "1" [] k = 2 -> "2" [] k = 3 -> "3" [] k = 4 -> "4"
    [] k = 5 -> "5" [] k = 6 -> "6" [] k = 7 -> "7" [] k = 8 -> "8" [] k = 9 -> "9"

\* s[i..j], empty when j < i
Slice(s, i, j) == IF j < i THEN <<>> ELSE SubSeq(s, i, j)

\* the first index >= i of s whose character is outside set (Len(s) + 1 if none)
RECURSIVE SpanEnd(_, _, _)
SpanEnd(s, i, set) ==
  IF i > Len(s) THEN i
  ELSE IF s[i] \in set THEN SpanEnd(s, i + 1, set) ELSE i

\* ------------------------------------------------------------------------
\* expr.strip()
\* ------------------------------------------------------------------------
RECURSIVE LStrip(_)
LStrip(s) == IF s # <<>> /\ Head(s) \in Whitespace THEN LStrip(Tail(s)) ELSE s

RECURSIVE RStrip(_)
RStrip(s) ==
  IF s # <<>> /\ s[Len(s)] \in Whitespace THEN RStrip(SubSeq(s, 1, Len(s) - 1)) ELSE s

\* expr.rstrip(): only the trailing whitespace goes
StripTrailingOnly(s) == RStrip(s)

Strip(s) == RStrip(LStrip(s))

\* ------------------------------------------------------------------------
\* The tokenizer behind ast.parse, on the model's characters
\* ------------------------------------------------------------------------
Tok(kind, text) == [k |-> kind, txt |-> text]
LexOk(ts) == [st |-> "ok", toks |-> ts]
LexSyntaxError == [st |-> "SyntaxError", toks |-> <<>>]
LexOutOfModel == [st |-> "OutOfModel", toks |-> <<>>]

\* the end (exclusive) of the number literal that starts at s[i]
NumberEnd(s, i) ==
  LET j == SpanEnd(s, i, Digits)
  IN  IF j <= Len(s) /\ s[j] = "." THEN SpanEnd(s, j + 1, Digits) ELSE j

\* an integer literal with a leading zero must be all zeros
BadLeadingZero(txt) ==
  /\ \A k \in 1..Len(txt) : txt[k] \in Digits
  /\ Len(txt) > 1
  /\ txt[1] = "0"
  /\ \E k \in 1..Len(txt) : txt[k] # "0"

\* names that are keywords of the language other than True, False and None
OtherKeywords == {<<"o", "r">>, <<"f", "o", "r">>}

\* s[j..] starts with one of those keywords
KeywordAt(s, j) ==
  \E w \in OtherKeywords : j + Len(w) - 1 <= Len(s) /\ SubSeq(s, j, j + Len(w) - 1) = w

RECURSIVE Lex(_, _, _, _)
Lex(s, i, depth, acc) ==
  IF i > Len(s) THEN LexOk(acc)
  ELSE LET c == s[i]
           c2 == IF i + 1 <= Len(s) THEN s[i + 1] ELSE ""
           c3 == IF i + 2 <= Len(s) THEN s[i + 2] ELSE ""
       IN
    IF c \in {" ", "\t"} THEN
      \* indentation before the first token is an error
      IF acc = <<>> THEN LexSyntaxError ELSE Lex(s, i + 1, depth, acc)
    ELSE IF c = "\n" THEN
      \* a line break ends the expression unless a bracket is open
      IF depth > 0 \/ acc = <<>> THEN Lex(s, i + 1, depth, acc)
      ELSE IF SpanEnd(s, i, Whitespace) > Len(s) THEN LexOk(acc)
      ELSE LexSyntaxError
    ELSE IF c \in Digits \/ (c = "." /\ c2 \in Digits) THEN
      LET j == NumberEnd(s, i)
          txt == SubSeq(s, i, j - 1)
      IN  IF j <= Len(s) /\ s[j] \in Letters THEN
            \* a letter right after a number: an exponent or a keyword is
            \* outside the model, anything else is an invalid literal
            IF s[j] = "e" \/ KeywordAt(s, j) THEN LexOutOfModel ELSE LexSyntaxError
          ELSE IF BadLeadingZero(txt) THEN LexSyntaxError
          ELSE Lex(s, j, depth, Append(acc, Tok("NUM", txt)))
    ELSE IF c \in Letters THEN
      LET j == SpanEnd(s, i, Letters \cup Digits)
          txt == SubSeq(s, i, j - 1)
      IN  IF txt \in OtherKeywords THEN LexOutOfModel
          ELSE Lex(s, j, depth, Append(acc, Tok("NAME", txt)))
    ELSE IF c = "*" /\ c2 = "*" THEN Lex(s, i + 2, depth, Append(acc, Tok("**", <<>>)))
    ELSE IF c = "/" /\ c2 = "/" THEN Lex(s, i + 2, depth, Append(acc, Tok("//", <<>>)))
    ELSE IF c = "." /\ c2 = "." /\ c3 = "." THEN Lex(s, i + 3, depth, Append(acc, Tok("...", <<>>)))
    ELSE IF c = "(" THEN Lex(s, i + 1, depth + 1, Append(acc, Tok(c, <<>>)))
    ELSE IF c = ")" THEN
      IF depth = 0 THEN LexSyntaxError
      ELSE Lex(s, i + 1, depth - 1, Append(acc, Tok(c, <<>>)))
    ELSE IF c \in OpChars THEN Lex(s, i + 1, depth, Append(acc, Tok(c, <<>>)))
    ELSE LexOutOfModel

\* the tokens of a source text
Tokenize(s) == Lex(s, 1, 0, <<>>)

\* ------------------------------------------------------------------------
\* The value of a number literal
\* ------------------------------------------------------------------------
\* the digits of txt read as a decimal integer, saturating at Limit + 1
RECURSIVE DigitsValue(_, _)
DigitsValue(txt, acc) ==
  IF txt = <<>> THEN acc
  ELSE IF acc > Limit THEN Limit + 1
  ELSE DigitsValue(Tail(txt), IF Head(txt) = "." THEN acc ELSE acc * 10 + DigitVal(Head(txt)))

\* the number of digits after the decimal point, -1 for an integer literal
FractionDigits(txt) ==
  LET j == SpanEnd(txt, 1, Digits)
  IN  IF j > Len(txt) THEN -1 ELSE Len(txt) - j

NumberValue(txt) ==
  LET v == DigitsValue(txt, 0)
      f == FractionDigits(txt)
      p == PowCap(10, f)
      q == MkFloat(v, p)
  IN  IF f < 0 THEN (IF v > Limit THEN UntrackedInt ELSE IntV(v))
      ELSE IF v > Limit THEN Untracked
      ELSE IF v = 0 THEN FloatV(0, 1)
      ELSE IF p > Limit THEN Untracked
      ELSE q.val

\* ------------------------------------------------------------------------
\* Syntax trees (the ast node classes that the model's tokens can produce)
\* ------------------------------------------------------------------------
Constant(v) == [type |-> "Constant", value |-> v]
Name(txt) == [type |-> "Name", id |-> txt]
BinOp(l, o, r) == [type |-> "BinOp", left |-> l, op |-> o, right |-> r]
UnaryOp(o, x) == [type |-> "UnaryOp", op |-> o, operand |-> x]
Tuple(es) == [type |-> "Tuple", elts |-> es]
Call(f, as, ks) == [type |-> "Call", func |-> f, args |-> as, keywords |-> ks]
Attribute(v, a) == [type |-> "Attribute", value |-> v, attr |-> a]
Starred(v) == [type |-> "Starred", value |-> v]
Keyword(v) == [type |-> "keyword", value |-> v]
Expression(b) == [type |-> "Expression", body |-> b]
Load == [type |-> "Load"]

BinOpName(k) ==
  CASE k = "+" -> "Add" [] k = "-" -> "Sub" [] k = "*" -> "Mult" [] k = "/" -> "Div"
    [] k = "//" -> "FloorDiv" [] k = "%" -> "Mod" [] k = "**" -> "Pow"

UnaryOpName(k) == IF k = "+" THEN "UAdd" ELSE "USub"

\* ------------------------------------------------------------------------
\* The parser behind ast.parse(expr, mode="eval"), on the model's tokens
\* ------------------------------------------------------------------------
POk(nd, p) == [ok |-> TRUE, node |-> nd, pos |-> p]
PFail == [ok |-> FALSE, node |-> Load, pos |-> 0]
LOk(es, p, c) == [ok |-> TRUE, elts |-> es, pos |-> p, comma |-> c]
LFail == [ok |-> FALSE, elts |-> <<>>, pos |-> 0, comma |-> FALSE]

\* the kind of the i-th token
K(t, i) == IF i <= Len(t) THEN t[i].k ELSE "EOF"

\* A rule hands the result of a sub-rule to the operator that continues from
\* it; `left` is the operand already parsed.
RECURSIVE ParseExpr(_, _), ParseTerm(_, _), ParseFactor(_, _), ParsePrimary(_, _)
RECURSIVE SumLoop(_, _, _), TermLoop(_, _, _), PrimaryLoop(_, _, _)

\* sum: sum ('+' | '-') term | term
SumStep(t, left, o, r) ==
  IF r.ok THEN SumLoop(t, BinOp(left, o, r.node), r.pos) ELSE PFail

\* sum: term ('+' | '-') sum | term, which groups from right to left
SumLoopRightToLeft(t, left, i) ==
  IF K(t, i) \in {"+", "-"}
    THEN SumStep(t, left, BinOpName(K(t, i)), ParseExpr(t, i + 1))
    ELSE POk(left, i)

SumLoop(t, left, i) ==
  IF K(t, i) \in {"+", "-"}
    THEN SumStep(t, left, BinOpName(K(t, i)), ParseTerm(t, i + 1))
    ELSE POk(left, i)

SumRest(t, l) == IF l.ok THEN SumLoop(t, l.node, l.pos) ELSE PFail

ParseExpr(t, i) == SumRest(t, ParseTerm(t, i))

\* term: term ('*' | '/' | '//' | '%') factor | factor
TermStep(t, left, o, r) ==
  IF r.ok THEN TermLoop(t, BinOp(left, o, r.node), r.pos) ELSE PFail

TermLoop(t, left, i) ==
  IF K(t, i) \in {"*", "/", "//", "%"}
    THEN TermStep(t, left, BinOpName(K(t, i)), ParseFactor(t, i + 1))
    ELSE POk(left, i)

TermRest(t, l) == IF l.ok THEN TermLoop(t, l.node, l.pos) ELSE PFail

ParseTerm(t, i) == TermRest(t, ParseFactor(t, i))

\* power: primary '**' factor | primary
Exponent(b, e) == IF e.ok THEN POk(BinOp(b.node, "Pow", e.node), e.pos) ELSE PFail

PowerRest(t, b) ==
  IF ~b.ok THEN PFail
  ELSE IF K(t, b.pos) = "**" THEN Exponent(b, ParseFactor(t, b.pos + 1))
  ELSE b

ParsePower(t, i) == PowerRest(t, ParsePrimary(t, i))

\* factor: ('+' | '-') factor | power
Signed(o, f) == IF f.ok THEN POk(UnaryOp(o, f.node), f.pos) ELSE PFail

\* power: unary ('**' power)?  unary: ('+' | '-')? primary, where the sign
\* belongs to the primary and at most one sign is read
FactorSignOnPrimary(t, i) ==
  PowerRest(t, IF K(t, i) \in {"+", "-"}
                 THEN Signed(UnaryOpName(K(t, i)), ParsePrimary(t, i + 1))
                 ELSE ParsePrimary(t, i))

ParseFactor(t, i) ==
  IF K(t, i) \in {"+", "-"}
    THEN Signed(UnaryOpName(K(t, i)), ParseFactor(t, i + 1))
    ELSE ParsePower(t, i)

IsKeywordNode(n) == n.type = "keyword"

\* the arguments of a call, in order, positional and starred ones first
ArgsInOrder(es) ==
  \A j \in 1..Len(es) : \A k \in 1..Len(es) :
    (j < k /\ IsKeywordNode(es[j])) => IsKeywordNode(es[k])

\* '*' expression and '**' expression
Unpacked(e, kind) ==
  IF ~e.ok THEN PFail
  ELSE IF kind = "Starred" THEN POk(Starred(e.node), e.pos)
  ELSE POk(Keyword(e.node), e.pos)

\* one element of a tuple display, an argument list or the top-level list
ParseItem(t, i, where) ==
  IF K(t, i) = "*" /\ where \in {"tuple", "call"} THEN Unpacked(ParseExpr(t, i + 1), "Starred")
  ELSE IF K(t, i) = "**" /\ where = "call" THEN Unpacked(ParseExpr(t, i + 1), "keyword")
  ELSE ParseExpr(t, i)

\* item (',' item)* [',']
RECURSIVE ParseItems(_, _, _, _, _)
ItemsRest(t, acc, comma, where, e) ==
  IF ~e.ok THEN LFail
  ELSE IF K(t, e.pos) = "," THEN
    IF K(t, e.pos + 1) \in {")", "EOF"} THEN LOk(Append(acc, e.node), e.pos + 1, TRUE)
    ELSE ParseItems(t, e.pos + 1, Append(acc, e.node), TRUE, where)
  ELSE LOk(Append(acc, e.node), e.pos, comma)

ParseItems(t, i, acc, comma, where) == ItemsRest(t, acc, comma, where, ParseItem(t, i, where))

\* a list of items that starts at token i
ParseList(t, i, where) == ParseItems(t, i, <<>>, FALSE, where)

\* primary: primary '.' NAME | primary '(' arguments ')' | atom
CallRest(t, left, l) ==
  IF l.ok /\ K(t, l.pos) = ")" /\ ArgsInOrder(l.elts)
    THEN PrimaryLoop(t, Call(left, SelectSeq(l.elts, LAMBDA n : ~IsKeywordNode(n)),
                             SelectSeq(l.elts, IsKeywordNode)), l.pos + 1)
    ELSE PFail

PrimaryLoop(t, left, i) ==
  IF K(t, i) = "." THEN
    IF K(t, i + 1) = "NAME" /\ t[i + 1].txt \notin {<<"T", "r", "u", "e">>, <<"N", "o", "n", "e">>}
      THEN PrimaryLoop(t, Attribute(left, t[i + 1].txt), i + 2)
      ELSE PFail
  ELSE IF K(t, i) = "(" THEN
    IF K(t, i + 1) = ")" THEN PrimaryLoop(t, Call(left, <<>>, <<>>), i + 2)
    ELSE CallRest(t, left, ParseList(t, i + 1, "call"))
  ELSE POk(left, i)

\* '(' items ')': a group or a tuple
GroupRest(t, l) ==
  IF ~(l.ok /\ K(t, l.pos) = ")") THEN PFail
  ELSE IF Len(l.elts) = 1 /\ ~l.comma THEN
    \* a group: a starred expression cannot stand alone
    IF l.elts[1].type = "Starred" THEN PFail ELSE POk(l.elts[1], l.pos + 1)
  ELSE POk(Tuple(l.elts), l.pos + 1)

\* atom: NAME | 'True' | 'None' | NUMBER | '...' | group | tuple
ParseAtom(t, i) ==
  IF K(t, i) = "NUM" THEN POk(Constant(NumberValue(t[i].txt)), i + 1)
  ELSE IF K(t, i) = "NAME" THEN
    IF t[i].txt = <<"T", "r", "u", "e">> THEN POk(Constant(BoolV(TRUE)), i + 1)
    ELSE IF t[i].txt = <<"N", "o", "n", "e">> THEN POk(Constant(None), i + 1)
    ELSE POk(Name(t[i].txt), i + 1)
  ELSE IF K(t, i) = "..." THEN POk(Constant(Ellipsis), i + 1)
  ELSE IF K(t, i) = "(" THEN
    IF K(t, i + 1) = ")" THEN POk(Tuple(<<>>), i + 2)
    ELSE GroupRest(t, ParseList(t, i + 1, "tuple"))
  ELSE PFail

PrimaryRest(t, a) == IF a.ok THEN PrimaryLoop(t, a.node, a.pos) ELSE PFail

ParsePrimary(t, i) == PrimaryRest(t, ParseAtom(t, i))

\* eval: expressions ENDMARKER
ParseEnd(t, l) ==
  IF ~(l.ok /\ l.pos = Len(t) + 1) THEN PFail
  ELSE IF Len(l.elts) = 1 /\ ~l.comma THEN POk(Expression(l.elts[1]), l.pos)
  ELSE POk(Expression(Tuple(l.elts)), l.pos)

Parse(t) == ParseEnd(t, ParseList(t, 1, "top"))

\* ------------------------------------------------------------------------
\* class _SafeEval(ast.NodeVisitor)
\* ------------------------------------------------------------------------
ALLOWED_NODES ==
  {"Expression", "BinOp", "UnaryOp", "Constant",
   "Add", "Sub", "Mult", "Div", "Mod", "Pow",
   "UAdd", "USub", "Load", "Call", "Name", "Tuple"}

\* the child nodes that NodeVisitor.generic_visit visits, in field order
Children(node) ==
  CASE node.type = "Name" -> <<Load>>
    [] node.type = "Tuple" -> node.elts \o <<Load>>
    [] node.type = "Call" -> <<node.func>> \o node.args \o node.keywords
    [] OTHER -> <<>>

RECURSIVE visit(_), VisitEach(_)

\* visit every node of a list in order; the first error ends the walk
EachRest(o, rest) == IF IsErr(o) THEN o ELSE VisitEach(rest)

VisitEach(nodes) ==
  IF nodes = <<>> THEN Ok(None) ELSE EachRest(visit(Head(nodes)), Tail(nodes))

\* NodeVisitor.generic_visit: visits the children and returns None
generic_visit(node) == VisitEach(Children(node))

visit_Expression(node) == visit(node.body)

\* the result of visit_BinOp from the outcomes of its operands
BinOpResult(op, left, right) ==
  IF IsErr(left) THEN left
  ELSE IF IsErr(right) THEN right
  ELSE IF op \in {"Add", "Sub", "Mult", "Div", "Mod", "Pow"}
    THEN BinValue(op, left.val, right.val)
  ELSE Raise("ValueError", "Unsupported operator")

visit_BinOp(node) == BinOpResult(node.op, visit(node.left), visit(node.right))

\* the result of visit_UnaryOp from the outcome of its operand
UnaryOpResult(op, operand) ==
  IF IsErr(operand) THEN operand
  ELSE IF op = "UAdd" THEN PyPos(operand.val)
  ELSE IF op = "USub" THEN PyNeg(operand.val)
  ELSE Raise("ValueError", "Unsupported unary operator")

visit_UnaryOp(node) == UnaryOpResult(node.op, visit(node.operand))

\* isinstance(node.value, (int, float)): bool is a subclass of int
visit_Constant(node) ==
  IF node.value.t \in {"int", "bool", "float"} THEN Ok(node.value)
  ELSE Raise("ValueError", "Only numeric constants are allowed")

visit(node) ==
  IF node.type \notin ALLOWED_NODES THEN Raise("ValueError", "Disallowed expression")
  ELSE CASE node.type = "Expression" -> visit_Expression(node)
         [] node.type = "BinOp" -> visit_BinOp(node)
         [] node.type = "UnaryOp" -> visit_UnaryOp(node)
         [] node.type = "Constant" -> visit_Constant(node)
         [] OTHER -> generic_visit(node)

\* ------------------------------------------------------------------------
\* safe_eval
\* ------------------------------------------------------------------------
Parsed(p) ==
  IF p.ok THEN [st |-> "ok", node |-> p.node] ELSE [st |-> "SyntaxError", node |-> Load]

Tokenized(l) == IF l.st # "ok" THEN [st |-> l.st, node |-> Load] ELSE Parsed(Parse(l.toks))

\* ast.parse(expr, mode="eval")
ast_parse(expr) == Tokenized(Tokenize(expr))

\* evaluator.visit(node), or the error of ast.parse
Evaluated(a) ==
  IF a.st = "SyntaxError" THEN Raise("SyntaxError", "invalid syntax")
  ELSE IF a.st = "OutOfModel" THEN OutOfModel
  ELSE visit(a.node)

\* safe_eval after expr = expr.strip()
EvalStripped(e) ==
  IF e = <<>> THEN Raise("ValueError", "Empty expression") ELSE Evaluated(ast_parse(e))

safe_eval(expr) == EvalStripped(Strip(expr))

\* ------------------------------------------------------------------------
\* str(value), for the values whose text the model tracks
\* ------------------------------------------------------------------------
RECURSIVE NatText(_)
NatText(k) == IF k < 10 THEN <<DigitChar(k)>> ELSE Append(NatText(k \div 10), DigitChar(k % 10))

IntText(k) == IF k < 0 THEN <<"-">> \o NatText(-k) ELSE NatText(k)

\* the decimals of r/d for 0 <= r < d, d a power of two
RECURSIVE FractionText(_, _)
FractionText(r, d) ==
  IF r = 0 THEN <<>>
  ELSE <<DigitChar((r * 10) \div d)>> \o FractionText((r * 10) % d, d)

\* repr of a tracked float that Python writes without an exponent
FloatText(v) ==
  LET a == Abs(v.n)
      f == FractionText(a % v.d, v.d)
  IN  (IF Negative(v) THEN <<"-">> ELSE <<>>) \o NatText(a \div v.d) \o <<".">>
        \o (IF f = <<>> THEN <<"0">> ELSE f)

\* whether the model knows str(v)
HasText(v) ==
  \/ v.t \in {"bool", "NoneType"}
  \/ v.t = "int" /\ IsTracked(v)
  \/ v.t = "float" /\ IsTracked(v) /\ (v.n = 0 \/ Abs(v.n) * 10000 >= v.d)

StrOf(v) ==
  CASE v.t = "NoneType" -> <<"N", "o", "n", "e">>
    [] v.t = "bool" -> IF v.n = 1 THEN <<"T", "r", "u", "e">> ELSE <<"F", "a", "l", "s", "e">>
    [] v.t = "int" -> IntText(v.n)
    [] v.t = "float" -> FloatText(v)

\* ------------------------------------------------------------------------
\* State: one call of safe_eval, and the calculator window
\* ------------------------------------------------------------------------
VARIABLES
  expr,      \* the argument of the call of safe_eval
  result,    \* its outcome
  pc,        \* "call" before the call, "done" after it, "gui" in the window
  display,   \* CalculatorApp.display_var
  message,   \* the error shown by the last handler, "" if it showed none
  last       \* the last handler that ran

vars == <<expr, result, pc, display, message, last>>

Pending == Raise("Pending", "")

\* whether the model computes safe_eval(s)
InModel(s) == safe_eval(s).err # "OutOfModel"

\* ------------------------------------------------------------------------
\* The call of safe_eval
\* ------------------------------------------------------------------------
InitCall(inputs) ==
  /\ expr \in {s \in inputs : InModel(s)}
  /\ result = Pending
  /\ pc = "call"
  /\ display = <<>>
  /\ message = ""
  /\ last = "init"

Eval ==
  /\ pc = "call"
  /\ result' = safe_eval(expr)
  /\ pc' = "done"
  /\ UNCHANGED <<expr, display, message, last>>

NextCall == Eval

\* ------------------------------------------------------------------------
\* Inputs
\* ------------------------------------------------------------------------
\* all texts of at most n characters over an alphabet
Texts(alphabet, n) == UNION {[1..k -> alphabet] : k \in 0..n}

RECURSIVE Flatten(_)
Flatten(q) == IF q = <<>> THEN <<>> ELSE Head(q) \o Flatten(Tail(q))

\* all concatenations of at most n pieces
PieceTexts(pieces, n) == {Flatten(q) : q \in Texts(pieces, n)}

\* expressions of exactly n operands joined by binary operators, with
\* every way of grouping them by parentheses or by leaving them out
RECURSIVE ExprTexts(_, _, _)
Grouped(operands, ops, n) ==
  IF n = 1 THEN operands
  ELSE ExprTexts(operands, ops, n) \cup {<<"(">> \o e \o <<")">> : e \in ExprTexts(operands, ops, n)}

ExprTexts(operands, ops, n) ==
  IF n = 1 THEN operands
  ELSE UNION {{l \o o \o r : l \in Grouped(operands, ops, k), o \in ops,
                             r \in Grouped(operands, ops, n - k)} : k \in 1..(n - 1)}

ExprsUpTo(operands, ops, n) == UNION {ExprTexts(operands, ops, k) : k \in 1..n}

Max2(a, b) == IF a >= b THEN a ELSE b

\* the greatest number of parentheses open at once in s[i..], d open before it
RECURSIVE ParenDepth(_, _, _, _)
ParenDepth(s, i, d, m) ==
  IF i > Len(s) THEN m
  ELSE IF s[i] = "(" THEN ParenDepth(s, i + 1, d + 1, Max2(m, d + 1))
  ELSE IF s[i] = ")" THEN ParenDepth(s, i + 1, d - 1, m)
  ELSE ParenDepth(s, i + 1, d, m)

\* --- texts of any shape: names, calls, tuples, keywords, malformed input
MaxSyntaxLen == 4
SyntaxPieces ==
  {<<"1">>, <<"0">>, <<"+">>, <<"(">>, <<")">>, <<",">>, <<".">>, <<"f">>,
   <<"T", "r", "u", "e">>, <<"N", "o", "n", "e">>}
\* parentheses and calls of these texts are not nested in one another
MaxSyntaxNesting == 1
SyntaxInputs(n) ==
  {s \in PieceTexts(SyntaxPieces, n) : ParenDepth(s, 1, 0, 0) <= MaxSyntaxNesting}

InitSyntax == InitCall(SyntaxInputs(MaxSyntaxLen))
SpecSyntax == InitSyntax /\ [][NextCall]_vars

\* ------------------------------------------------------------------------
\* class CalculatorApp
\* ------------------------------------------------------------------------
\* longest display text that a handler appends to
MaxDisplay == 4

\* the texts of the grid buttons pressed in the model ('=' is one of them)
ButtonChars == {"1", "0", "/", "-", "="}
\* the characters of the key events of the model; "" is a key without one
KeyChars == {"%", "2", "e", ""}
\* on_key: allowed = '0123456789.+-*/()%'
AllowedKeys ==
  {"0", "1", "2", "3", "4", "5", "6", "7", "8", "9", ".", "+", "-", "*", "/", "(", ")", "%", ""}

InitApp ==
  /\ display = <<>>
  /\ message = ""
  /\ last = "init"
  /\ expr = <<>>
  /\ result = Pending
  /\ pc = "gui"

\* cur.count(c)
Count(cur, c) == Cardinality({i \in 1..Len(cur) : cur[i] = c})

\* the text that calculate() puts on the display for a value
ResultText(v) ==
  IF v.t = "float" /\ v.d = 1 THEN IntText(v.n) ELSE StrOf(v)

\* calculate() once safe_eval(expr) has returned or raised o
Calculated(o) ==
  /\ o.err # "OutOfModel"
  /\ IsOk(o) => HasText(o.val)
  /\ IF IsOk(o)
       THEN display' = ResultText(o.val) /\ message' = ""
       ELSE display' = display /\ message' = o.err

\* calculate(): display_var.set(str(result)), or messagebox.showerror
calculate ==
  /\ Calculated(safe_eval(display))
  /\ last' = "calculate"

\* display_var.set(cur + ch)
Typed(ch) ==
  /\ Len(display) < MaxDisplay
  /\ display' = Append(display, ch)
  /\ message' = ""

on_button(ch) ==
  /\ pc = "gui"
  /\ IF ch = "=" THEN calculate ELSE (Typed(ch) /\ last' = "on_button")
  /\ UNCHANGED <<expr, result, pc>>

on_key(char) ==
  /\ pc = "gui"
  /\ Len(display) < MaxDisplay
  /\ display' = IF char \in AllowedKeys /\ char # "" THEN Append(display, char) ELSE display
  /\ message' = ""
  /\ last' = "on_key"
  /\ UNCHANGED <<expr, result, pc>>

clear ==
  /\ pc = "gui"
  /\ display' = <<>>
  /\ message' = ""
  /\ last' = "clear"
  /\ UNCHANGED <<expr, result, pc>>

backspace ==
  /\ pc = "gui"
  /\ display' = Slice(display, 1, Len(display) - 1)
  /\ message' = ""
  /\ last' = "backspace"
  /\ UNCHANGED <<expr, result, pc>>

insert_parens ==
  /\ pc = "gui"
  /\ Len(display) < MaxDisplay
  /\ display' = Append(display, IF Count(display, "(") = Count(display, ")") THEN "(" ELSE ")")
  /\ message' = ""
  /\ last' = "insert_parens"
  /\ UNCHANGED <<expr, result, pc>>

\* str(-val), or the error of -val
Negated(o) == IF IsOk(o) THEN PyNeg(o.val) ELSE o

\* negate() on a display that is not empty, once -safe_eval(cur) is m
NegatedDisplay(cur, m) ==
  /\ m.err # "OutOfModel"
  /\ IsOk(m) => HasText(m.val)
  /\ display' = IF IsOk(m) THEN StrOf(m.val)
                ELSE IF Head(cur) = "-" THEN Tail(cur)
                ELSE <<"-">> \o cur

negate ==
  /\ pc = "gui"
  /\ IF display = <<>> THEN display' = <<"-">>
     ELSE NegatedDisplay(display, Negated(safe_eval(display)))
  /\ message' = ""
  /\ last' = "negate"
  /\ UNCHANGED <<expr, result, pc>>

NextApp ==
  \/ \E ch \in ButtonChars : on_button(ch)
  \/ \E char \in KeyChars : on_key(char)
  \/ clear
  \/ backspace
  \/ insert_parens
  \/ negate

SpecApp == InitApp /\ [][NextApp]_vars

\* ------------------------------------------------------------------------
\* The tree that safe_eval evaluates
\* ------------------------------------------------------------------------
\* the nodes directly under a node, operator and context classes aside
SubNodes(node) ==
  CASE node.type = "Expression" -> <<node.body>>
    [] node.type = "BinOp" -> <<node.left, node.right>>
    [] node.type = "UnaryOp" -> <<node.operand>>
    [] node.type = "Tuple" -> node.elts
    [] node.type = "Call" -> <<node.func>> \o node.args \o node.keywords
    [] node.type \in {"Attribute", "Starred", "keyword"} -> <<node.value>>
    [] OTHER -> <<>>

\* every node of a tree, the root first
RECURSIVE NodesOf(_), NodesOfEach(_)
NodesOf(node) == <<node>> \o NodesOfEach(SubNodes(node))

NodesOfEach(nodes) ==
  IF nodes = <<>> THEN <<>> ELSE NodesOf(Head(nodes)) \o NodesOfEach(Tail(nodes))

\* the outcome of ast.parse for the text that safe_eval hands to it
TreeOf(s) == ast_parse(Strip(s))

\* the nodes of that tree, none when the text does not parse
TreeNodes(s) == IF TreeOf(s).st = "ok" THEN NodesOf(TreeOf(s).node) ELSE <<>>

\* ------------------------------------------------------------------------
\* The grammar of the specification (section 4.1), as a recogniser
\*   expression := term (('+'|'-') term)*      term := factor (('*'|'/'|'%') factor)*
\*   factor := power      power := unary ('**' power)?
\*   unary := ('+'|'-')? primary               primary := NUMBER | '(' expression ')'
\* ------------------------------------------------------------------------
SpecOps == {"+", "-", "*", "/", "%", "(", ")"}

\* the end (exclusive) of the literal at s[i]: digits, optional single decimal point
SpecNumberEnd(s, i) ==
  IF SpanEnd(s, i, Digits) <= Len(s) /\ s[SpanEnd(s, i, Digits)] = "."
    THEN SpanEnd(s, SpanEnd(s, i, Digits) + 1, Digits)
    ELSE SpanEnd(s, i, Digits)

\* the token kinds of a text; "BAD" stands for a character outside the tokens
RECURSIVE SpecLex(_, _, _)
SpecLex(s, i, acc) ==
  IF i > Len(s) THEN acc
  ELSE IF s[i] \in Whitespace THEN SpecLex(s, i + 1, acc)
  ELSE IF s[i] \in Digits \/ (s[i] = "." /\ i < Len(s) /\ s[i + 1] \in Digits)
    THEN SpecLex(s, SpecNumberEnd(s, i), Append(acc, "NUM"))
  ELSE IF s[i] = "*" /\ i < Len(s) /\ s[i + 1] = "*" THEN SpecLex(s, i + 2, Append(acc, "**"))
  ELSE IF s[i] \in SpecOps THEN SpecLex(s, i + 1, Append(acc, s[i]))
  ELSE Append(acc, "BAD")

\* Each rule returns the index after what it recognised from token i, 0 if
\* it recognised nothing.
SpecK(t, i) == IF i >= 1 /\ i <= Len(t) THEN t[i] ELSE "EOF"

RECURSIVE SpecExpression(_, _), SpecPower(_, _), SpecTermLoop(_, _), SpecSumLoop(_, _)

SpecClose(t, j) == IF j # 0 /\ SpecK(t, j) = ")" THEN j + 1 ELSE 0

SpecPrimary(t, i) ==
  IF SpecK(t, i) = "NUM" THEN i + 1
  ELSE IF SpecK(t, i) = "(" THEN SpecClose(t, SpecExpression(t, i + 1))
  ELSE 0

SpecUnary(t, i) == IF SpecK(t, i) \in {"+", "-"} THEN SpecPrimary(t, i + 1) ELSE SpecPrimary(t, i)

SpecPowerRest(t, j) == IF j # 0 /\ SpecK(t, j) = "**" THEN SpecPower(t, j + 1) ELSE j

SpecPower(t, i) == SpecPowerRest(t, SpecUnary(t, i))

SpecTermLoop(t, j) ==
  IF j # 0 /\ SpecK(t, j) \in {"*", "/", "%"} THEN SpecTermLoop(t, SpecPower(t, j + 1)) ELSE j

SpecTerm(t, i) == SpecTermLoop(t, SpecPower(t, i))

SpecSumLoop(t, j) ==
  IF j # 0 /\ SpecK(t, j) \in {"+", "-"} THEN SpecSumLoop(t, SpecTerm(t, j + 1)) ELSE j

SpecExpression(t, i) == SpecSumLoop(t, SpecTerm(t, i))

\* the whole token sequence is one expression
SpecAcceptsTokens(t) == SpecExpression(t, 1) = Len(t) + 1

SpecAccepts(s) == SpecAcceptsTokens(SpecLex(s, 1, <<>>))

\* not empty after trimming, and not an expression of the grammar
Malformed(s) == Strip(s) # <<>> /\ ~SpecAccepts(Strip(s))

\* ------------------------------------------------------------------------
\* Properties of safe_eval on texts of any shape (SpecSyntax)
\* ------------------------------------------------------------------------
\* a node that is no numeric literal, no unary +/- and none of the six binary operations
Foreign(node) ==
  \/ node.type \notin {"Expression", "BinOp", "UnaryOp", "Constant"}
  \/ node.type = "BinOp" /\ node.op \notin {"Add", "Sub", "Mult", "Div", "Mod", "Pow"}
  \/ node.type = "Constant" /\ node.value.t \notin {"int", "float"}

HasForeign(s) == LET nodes == TreeNodes(s) IN \E k \in 1..Len(nodes) : Foreign(nodes[k])

\* C1: whenever the parsed tree of the input holds a construct other than a
\* numeric literal, a unary +/- or a binary + - * / % ** (a name, a call, a
\* tuple, an attribute access), safe_eval raises the ValueError of a disallowed
\* construct and returns no value.
C1_DisallowedConstructFails ==
  (pc = "done" /\ HasForeign(expr)) => (IsErr(result) /\ result.err = "ValueError")

\* C2: safe_eval either returns an int or a float, or it raises; it never
\* returns None, a bool or any other value.
C2_NumberOrError ==
  pc = "done" => (IsErr(result) \/ (IsOk(result) /\ result.val.t \in {"int", "float"}))

\* C3: for every constant node of the parsed tree whose value is no int and
\* no float (a bool, None, ...), visit_Constant raises; a text that is such a
\* constant alone makes safe_eval raise.
C3_OnlyNumericConstants ==
  pc = "done" =>
    LET nodes == TreeNodes(expr)
    IN  \A k \in 1..Len(nodes) :
          (nodes[k].type = "Constant" /\ nodes[k].value.t \notin {"int", "float"})
            => (IsErr(visit_Constant(nodes[k])) /\ (k = 2 => IsErr(result)))

\* C4: every input that is malformed under the grammar of the specification
\* (incomplete, unmatched parenthesis, trailing characters such as '1,1' or
\* '1(1)', unexpected token, malformed number) makes safe_eval raise
\* SyntaxError.
C4_MalformedIsSyntaxError ==
  (pc = "done" /\ Malformed(expr)) => (IsErr(result) /\ result.err = "SyntaxError")

\* ------------------------------------------------------------------------
\* Leading and trailing whitespace (SpecPadded)
\* ------------------------------------------------------------------------
MaxPadded == 5
PaddedChars == {" ", "\t", "\n", "1", "+"}
PaddedInputs(n) == Texts(PaddedChars, n)

InitPadded == InitCall(PaddedInputs(MaxPadded))
SpecPadded == InitPadded /\ [][NextCall]_vars

\* the positions of the characters of s that are no whitespace
Inked(s) == {i \in 1..Len(s) : s[i] \notin Whitespace}

Least(S) == CHOOSE x \in S : \A y \in S : x <= y
Greatest(S) == CHOOSE x \in S : \A y \in S : x >= y

\* s from its first to its last character that is no whitespace
Core(s) == IF Inked(s) = {} THEN <<>> ELSE SubSeq(s, Least(Inked(s)), Greatest(Inked(s)))

\* C9: a text that holds nothing but whitespace makes safe_eval raise
\* ValueError('Empty expression'); for any other text the outcome is the
\* outcome for the text without its leading and trailing whitespace.
C9_EmptyOrTrimmed ==
  pc = "done" =>
    IF Inked(expr) = {} THEN result = Raise("ValueError", "Empty expression")
    ELSE result = safe_eval(Core(expr))

\* ' 1+1\n' evaluates to 2, and a text of whitespace alone was rejected
C9_PaddedSumEvaluated ==
  /\ pc = "done"
  /\ expr # <<>>
  /\ Head(expr) \in Whitespace
  /\ expr[Len(expr)] \in Whitespace
  /\ Core(expr) = <<"1", "+", "1">>
  /\ result = Ok(IntV(2))

\* ------------------------------------------------------------------------
\* Division and remainder (SpecDivision)
\* ------------------------------------------------------------------------
MaxDivOperands == 3
DivOperands == {<<"0">>, <<"1">>, <<".", "5">>}
DivOps == {<<"/">>, <<"%">>}
DivInputs(n) == ExprsUpTo(DivOperands, DivOps, n)

InitDivision == InitCall(DivInputs(MaxDivOperands))
SpecDivision == InitDivision /\ [][NextCall]_vars

\* a node `a / b` or `a % b`
IsDivision(node) == node.type = "BinOp" /\ node.op \in {"Div", "Mod"}

\* the outcome is a value of a real numeric type
IsNumber(o) == IsOk(o) /\ IsReal(o.val)

IsZero(v) == IsTracked(v) /\ v.n = 0

DivisionByZero(o) == IsErr(o) /\ o.err = "ZeroDivisionError"

\* with operands that evaluate to the numbers a and b, the division's
\* outcome o is a division by zero exactly when b is zero
DivisionRule(a, b, o) ==
  (IsNumber(a) /\ IsNumber(b)) => (DivisionByZero(o) <=> IsZero(b.val))

\* the rule at the k-th node of a tree; the second node is the body of the
\* Expression, whose outcome is the result of safe_eval
DivisionRuleAt(nodes, k) ==
  IsDivision(nodes[k]) =>
    DivisionRule(visit(nodes[k].left), visit(nodes[k].right),
                 IF k = 2 THEN result ELSE visit(nodes[k]))

\* C5: for every division a / b and remainder a % b of the evaluated tree
\* whose operands evaluate to numbers, the operation raises ZeroDivisionError
\* when b is zero (0 or 0.0) and raises no ZeroDivisionError when b is not zero.
C5_DivisionByZero ==
  pc = "done" =>
    LET nodes == TreeNodes(expr)
    IN  \A k \in 1..Len(nodes) : DivisionRuleAt(nodes, k)

\* '1/(0/1)' and the like: a division whose divisor is computed to 0.0 raised
C5_ComputedFloatZeroDivisor ==
  /\ pc = "done"
  /\ DivisionByZero(result)
  /\ LET body == TreeNodes(expr)[2]
     IN  /\ IsDivision(body)
         /\ body.right.type = "BinOp"
         /\ visit(body.left) = Ok(IntV(1))
         /\ visit(body.right) = Ok(FloatV(0, 1))

\* ------------------------------------------------------------------------
\* Precedence and grouping (SpecPrecedence)
\* ------------------------------------------------------------------------
MaxOperands == 3
IntOperands == {<<"2">>, <<"3">>}
ArithOps == {<<"+">>, <<"-">>, <<"*">>, <<"/">>, <<"%">>, <<"*", "*">>}
ArithInputs(n) == ExprsUpTo(IntOperands, ArithOps, n)

InitPrecedence == InitCall(ArithInputs(MaxOperands))
SpecPrecedence == InitPrecedence /\ [][NextCall]_vars

\* The reference evaluator of the specification works on the text: it splits
\* at the last '+' or '-' outside parentheses, else at the last '*', '/' or
\* '%', else at the first '**', else it opens the parentheses or reads the
\* integer literal.
RECURSIVE DepthAt(_, _)
DepthAt(s, i) ==
  IF i <= 1 THEN 0
  ELSE DepthAt(s, i - 1) + (IF s[i - 1] = "(" THEN 1 ELSE IF s[i - 1] = ")" THEN -1 ELSE 0)

CharAt(s, i) == IF i >= 1 /\ i <= Len(s) THEN s[i] ELSE ""

SumAt(s) == {i \in 1..Len(s) : s[i] \in {"+", "-"} /\ DepthAt(s, i) = 0}

TermAt(s) ==
  {i \in 1..Len(s) : /\ s[i] \in {"*", "/", "%"}
                     /\ DepthAt(s, i) = 0
                     /\ ~(s[i] = "*" /\ (CharAt(s, i + 1) = "*" \/ CharAt(s, i - 1) = "*"))}

PowAt(s) == {i \in 1..Len(s) : s[i] = "*" /\ CharAt(s, i + 1) = "*" /\ DepthAt(s, i) = 0}

RefApply(o, l, r) ==
  IF IsErr(l) THEN l ELSE IF IsErr(r) THEN r
  ELSE CASE o = "+" -> BinValue("Add", l.val, r.val)
         [] o = "-" -> BinValue("Sub", l.val, r.val)
         [] o = "*" -> BinValue("Mult", l.val, r.val)
         [] o = "/" -> BinValue("Div", l.val, r.val)
         [] o = "%" -> BinValue("Mod", l.val, r.val)
         [] o = "**" -> BinValue("Pow", l.val, r.val)

RECURSIVE RefEval(_)

\* split s at the operator of width w at position i
RefSplit(s, i, w) ==
  RefApply(IF w = 2 THEN "**" ELSE s[i],
           RefEval(SubSeq(s, 1, i - 1)), RefEval(SubSeq(s, i + w, Len(s))))

RefEval(s) ==
  IF SumAt(s) # {} THEN RefSplit(s, Greatest(SumAt(s)), 1)
  ELSE IF TermAt(s) # {} THEN RefSplit(s, Greatest(TermAt(s)), 1)
  ELSE IF PowAt(s) # {} THEN RefSplit(s, Least(PowAt(s)), 2)
  ELSE IF Head(s) = "(" THEN RefEval(SubSeq(s, 2, Len(s) - 1))
  ELSE MkInt(DigitsValue(s, 0))

\* C6: on expressions over integer literals, + - * / % ** and parentheses,
\* safe_eval returns what the reference evaluator returns: ** above * / %
\* above + -, the first five grouped from left to right, ** from right to left.
C6_MatchesReference == pc = "done" => result = RefEval(expr)

\* '2**3**2' evaluated to 512
C6_PowerTowerEvaluated ==
  /\ pc = "done"
  /\ expr = <<"2", "*", "*", "3", "*", "*", "2">>
  /\ result = Ok(IntV(512))

\* ------------------------------------------------------------------------
\* Signs and powers (SpecSigns)
\* ------------------------------------------------------------------------
MaxSigns == 2
SignChars == {"+", "-"}
SignTexts(n) == Texts(SignChars, n)
SignBases == {<<"2">>, <<"3">>, <<".", "5">>, <<"0">>}
SignInputs(n) ==
  {s \o a : s \in SignTexts(n), a \in SignBases}
    \cup {s \o a \o <<"*", "*">> \o q \o b :
            s \in SignTexts(n), a \in SignBases, q \in SignTexts(n), b \in SignBases}

InitSigns == InitCall(SignInputs(MaxSigns))
SpecSigns == InitSigns /\ [][NextCall]_vars

\* the position of the first '*' of s, Len(s) + 1 if it has none
StarAt(s) == SpanEnd(s, 1, Digits \cup SignChars \cup {"."})

\* what stands before the '**' of s, and after it
BaseText(s) == SubSeq(s, 1, StarAt(s) - 1)
ExponentText(s) == SubSeq(s, StarAt(s) + 2, Len(s))

LeadingSigns(s) == SubSeq(s, 1, SpanEnd(s, 1, SignChars) - 1)
Unsigned(s) == SubSeq(s, SpanEnd(s, 1, SignChars), Len(s))

\* the signs of a text applied to an outcome, the innermost sign first
RECURSIVE ApplySigns(_, _)
ApplySigns(signs, o) ==
  IF signs = <<>> \/ IsErr(o) THEN o
  ELSE IF signs[Len(signs)] = "-"
    THEN ApplySigns(SubSeq(signs, 1, Len(signs) - 1), PyNeg(o.val))
    ELSE ApplySigns(SubSeq(signs, 1, Len(signs) - 1), PyPos(o.val))

\* the value of a signed literal
SignedLiteral(s) == ApplySigns(LeadingSigns(s), Ok(NumberValue(Unsigned(s))))

RaisedTo(l, r) == IF IsErr(l) THEN l ELSE IF IsErr(r) THEN r ELSE BinValue("Pow", l.val, r.val)

\* C7 as the specification states it: a sign belongs to the primary after it,
\* so that '-a**b' is (-a)**b ('-2**2' is 4), and a text with two signs in a
\* row ('--5') is a syntax error.
C7_SignBindsTighterThanPower ==
  pc = "done" =>
    IF Len(LeadingSigns(expr)) > 1 \/ Len(LeadingSigns(ExponentText(expr))) > 1
      THEN IsErr(result) /\ result.err = "SyntaxError"
    ELSE IF StarAt(expr) > Len(expr) THEN result = SignedLiteral(expr)
    ELSE result = RaisedTo(SignedLiteral(BaseText(expr)), SignedLiteral(ExponentText(expr)))

\* C7 as the code has it: the signs before a power apply to the whole power,
\* so that '-a**b' is -(a**b) ('-2**2' is -4); the signs of the exponent
\* apply to the exponent; any number of signs is accepted ('--5' is 5).
C7_SignAppliesToPower ==
  pc = "done" =>
    IF StarAt(expr) > Len(expr) THEN result = SignedLiteral(expr)
    ELSE result = ApplySigns(LeadingSigns(expr),
                             RaisedTo(Ok(NumberValue(Unsigned(BaseText(expr)))),
                                      SignedLiteral(ExponentText(expr))))

\* '-2**2' evaluated to -4
C7_NegatedSquareEvaluated ==
  /\ pc = "done"
  /\ expr = <<"-", "2", "*", "*", "2">>
  /\ result = Ok(IntV(-4))

\* ------------------------------------------------------------------------
\* Deep nesting (SpecDeep)
\* ------------------------------------------------------------------------
\* The configured nesting bound.  The specification proposes 100; the code
\* configures none, so the model takes a small one that its inputs exceed.
NestingLimit == 1

MaxNesting == 2

\* n times the text p, then x, then n times the text q
RECURSIVE Nested(_, _, _, _)
Nested(p, x, q, n) == IF n = 0 THEN x ELSE p \o Nested(p, x, q, n - 1) \o q

DeepLeaves == {<<"1">>, <<"2">>, <<"3">>, <<".", "5">>, <<"0">>, <<"1", "0">>}

\* a literal under at most m signs ('-+1'), or within at most m pairs of
\* parentheses ('((1))')
DeepInputs(m) ==
  {s \o x : s \in Texts(SignChars, m), x \in DeepLeaves}
    \cup {Nested(<<"(">>, x, <<")">>, n) : n \in 0..m, x \in DeepLeaves}

InitDeep == InitCall(DeepInputs(MaxNesting))
SpecDeep == InitDeep /\ [][NextCall]_vars

\* the number of nested calls of visit that a node causes
RECURSIVE VisitDepth(_), VisitDepthEach(_)
VisitDepth(node) == 1 + VisitDepthEach(SubNodes(node))

VisitDepthEach(nodes) ==
  IF nodes = <<>> THEN 0 ELSE Max2(VisitDepth(Head(nodes)), VisitDepthEach(Tail(nodes)))

\* the depth of the tree of s: its calls of visit; 0 when s does not parse
TreeDepth(s) == IF TreeOf(s).st = "ok" THEN VisitDepth(TreeOf(s).node) ELSE 0

\* the operators nested in s: the tree without the Expression and the literal
OperatorDepth(s) == Max2(TreeDepth(s) - 2, 0)

\* C8: an input whose parentheses or operators nest deeper than the
\* configured bound makes safe_eval fail, and for an input that it evaluates
\* the calls of visit nest no deeper than the bound allows (the bound, the
\* Expression node and the literal).
C8_NestingDepthEnforced ==
  pc = "done" =>
    /\ (ParenDepth(expr, 1, 0, 0) > NestingLimit \/ OperatorDepth(expr) > NestingLimit)
         => IsErr(result)
    /\ IsOk(result) => TreeDepth(expr) <= NestingLimit + 2

\* ------------------------------------------------------------------------
\* Properties of the calculator window (SpecApp)
\* ------------------------------------------------------------------------
\* the text of an int or of a float written without an exponent
IsNumberText(s) ==
  /\ Unsigned(s) # <<>>
  /\ Len(LeadingSigns(s)) <= 1
  /\ LeadingSigns(s) \in {<<>>, <<"-">>}
  /\ Head(Unsigned(s)) \in Digits
  /\ SpecNumberEnd(Unsigned(s), 1) = Len(Unsigned(s)) + 1
  /\ Unsigned(s)[Len(Unsigned(s))] \in Digits

\* C10: a step of calculate either shows an error message and leaves the
\* display as it was, or shows no message and leaves the text of a number on
\* the display (never 'None').
C10_CalculateKeepsOrShowsNumber ==
  [][last' = "calculate" =>
       IF message' # "" THEN display' = display ELSE IsNumberText(display')]_vars

====
